---------------------------- MODULE Spec2Model ----------------------------
(***************************************************************************)
(* A model of iba2opcua: the playback server (server.py: IbaToUaServer     *)
(* and its VariableUpdater threads) and the file layer it reads from       *)
(* (pyIbaTools.py: ibaReader, __check_file__, readIbaFile, readIbaFiles).  *)
(*                                                                         *)
(* SpecPlayback runs IbaToUaServer.start() and the updater threads against *)
(* a clock; SpecFiles runs the calls of the file layer against files that  *)
(* the environment may remove or release while a call is under way.  The   *)
(* functions of pyIbaTools.py that compute on their arguments alone have a *)
(* specification each, which draws the arguments and applies the function: *)
(* SpecResample (one channel read at the wanted sample rate), SpecDecl     *)
(* (__declaration_check__), SpecExtract (the channel loop of readIbaFile), *)
(* SpecStack (readIbaFiles) and SpecSort (sortIbaFiles).  All parts share  *)
(* the variables; the parts a specification does not run stand idle.       *)
(***************************************************************************)
EXTENDS Integers, Sequences, FiniteSets, TLC

(***************************************************************************)
(* Bounds of the model.                                                    *)
(***************************************************************************)
NumChans == 2       \* channels enumerated in the first iba file
MaxLen == 2         \* rows of the data frame read from it (frames)
MaxTime == 2        \* the clock runs from 0 to MaxTime
MaxTicks == 4       \* loop iterations of one updater that are followed
NumFiles == 2       \* files known to the file layer (and stacked)
MaxFrames == 3      \* frames of the file one channel is read from
MaxTbase == 3       \* the largest sample period asked of one channel read
MaxDecl == 2        \* entries of a channels or names declaration

Chans == 1..NumChans
Tbases == {1, 2}    \* the values of $PDA_Tbase: the sample periods
NoTbase == 0        \* a channel whose infos hold no $PDA_Tbase key
ChanTypes == {"analog", "text"}

Range(s) == {s[i] : i \in 1..Len(s)}

Files == 1..NumFiles
FrameLimit == 1000000000    \* __check_file__: frames >= 1000000000
HeaderLimit == 20           \* get_start_time: line_idx > 20
FrameCounts == {FrameLimit - 1, FrameLimit, FrameLimit + 1}
Clks == {2}                 \* the clock period the header reports
\* What the reader finds in a file: "good" reads well, "unopenable" makes Open
\* raise, "damaged" makes the metadata query raise, "nodata" makes QueryData
\* return None.
FileKinds == {"good", "unopenable", "damaged", "nodata"}
FileDescs ==
    [kind : {"good"}, frames : FrameCounts, clk : Clks]
        \cup [kind : FileKinds \ {"good"}, frames : {FrameLimit - 1}, clk : Clks]

VARIABLES
    \* ---- server.py ----
    channel_info,   \* get_channel_info(iba_file): chan -> [type, tbase]
    frames,         \* data.shape[0]: the rows readIbaFile returns
    main_pc,        \* where IbaToUaServer.start() stands
    iba_info,       \* self.iba_info['channels']: [order, channels]
    opc_value,      \* chan['opc_value']: the value node of a channel, 0 = None
    wv_i,           \* _write_values: index of the current sample rate
    wv_pc,          \* _write_values: "read" the data or "start" the thread
    data_read,      \* the sample rates whose data readIbaFile has returned
    u_pc,           \* VariableUpdater: position of each thread
    u_idx,          \* VariableUpdater.run: idx
    u_chan,         \* VariableUpdater.run: position in self.channel
    u_nextCall,     \* VariableUpdater._nextCall
    u_close,        \* VariableUpdater._close_event
    u_tick,         \* iterations of the while loop begun
    now,            \* time.time()
    \* ---- history of the playback ----
    u_deadline0,    \* _nextCall as the constructor set it
    u_stopTick,     \* iterations begun when stop() was called, -1 before
    u_stopBetween,  \* stop() came between two iterations
    u_lastWrite,    \* the iteration of the latest sink write
    writers,        \* node -> the threads that called set_attribute_value on it
    \* ---- the files ----
    f_desc,         \* file -> what the reader finds in it
    f_exists,       \* os.path.isfile(iba_file)
    f_written,      \* ibaFilesLite.isCurrentPDA(iba_file)
    \* ---- pyIbaTools.py: the call under way ----
    op,             \* the public call: checkFile, validate, readIbaFiles
    pc,             \* where it stands, "done" when it has ended
    stage,          \* readIbaFile: "decl" (get_channels) or "read"
    cur,            \* iba_file of the current ibaReader / __check_file__
    rd_open,        \* reader.IsOpen() of the current reader
    close_file,     \* __check_file__: close_file
    result,         \* how the public call ended: "ok" or the exception
    decl_reads,     \* __declaration_check__ has to call get_channels
    rf_i,           \* readIbaFiles: index into iba_file_list
    dfs,            \* readIbaFiles: the files whose frame has been collected
    stacked,        \* readIbaFiles: the files of the frame it returned
    \* ---- history of the call ----
    ir_written,     \* ibaReader: isCurrentPDA as it was evaluated
    ir_opens,       \* ibaReader: calls of reader.Open since then
    cf_openAtEntry, \* __check_file__: reader.IsOpen() on entry
    cf_queryOk,     \* __check_file__: both QueryInfoByName calls succeeded
    cf_exit,        \* __check_file__: "none", "ok" or the exception raised
    cf_openAtExit,  \* __check_file__: reader.IsOpen() on exit
    cf_ret,         \* __check_file__: the pair returned
    cf_closes,      \* __check_file__: calls of reader.Close
    cf_closedTwice, \* __check_file__: Close was called on a closed reader
    rf_failed,      \* readIbaFiles: the files whose readIbaFile raised
    rd_leaked,      \* a with ibaReader block was left with the reader open
    \* ---- pyIbaTools.py: one channel read ----
    rs_in,          \* the arguments and what the channel reader returns
    rs_pc,          \* "call" before the read, "done" after, "idle" if none
    rs_out,         \* the data returned
    rs_err,         \* "none" or the exception raised
    \* ---- pyIbaTools.py: __declaration_check__ ----
    dc_in,          \* the arguments, and EnumerateChannels() of the file
    dc_pc,          \* "names", "channels", "compare", "done"; "idle" if none
    dc_channels,    \* the local channels
    dc_names,       \* the local names
    dc_err,         \* "none" or the exception raised
    \* ---- pyIbaTools.py: readIbaFile, the loop over the channels ----
    ex_in,          \* channels, names, ignore, and the channels of the file
    ex_num,         \* the entry the loop stands on, counted from 1
    ex_chan_data,   \* chan_data: the channel whose data it holds, or "unbound"
    ex_df,          \* df: the columns in their order, each [name, data]
    ex_result,      \* "run", "ok" or the exception raised; "idle" if none
    \* ---- pyIbaTools.py: readIbaFiles, the stacking ----
    st_in,          \* iba_file_list: for each file what readIbaFile returns
    st_pc,          \* "read", "fill", "concat", "done"; "idle" if none
    st_i,           \* the position of either loop, counted from 1
    st_dfs,         \* dfs
    st_columns,     \* set(columns)
    st_out,         \* the rows of the frame returned
    st_err,         \* "none" or the exception raised
    \* ---- pyIbaTools.py: sortIbaFiles ----
    so_in,          \* iba_files: for each file what get_start_time finds
    so_pc,          \* "scan", "sort", "done"; "idle" if none
    so_i,           \* the position of the loop, counted from 1
    so_dict,        \* sort_dict: its items [file, time] in insertion order
    so_out          \* the list returned

pbVars == <<channel_info, frames, main_pc, iba_info, opc_value, wv_i, wv_pc,
            data_read, u_pc, u_idx, u_chan, u_nextCall, u_close, u_tick, now,
            u_deadline0, u_stopTick, u_stopBetween, u_lastWrite, writers>>

fileVars == <<f_desc, f_exists, f_written>>
rfVars == <<decl_reads, rf_i, dfs, stacked>>
irVars == <<ir_written, ir_opens>>
cfVars == <<close_file, cf_openAtEntry, cf_queryOk, cf_exit, cf_openAtExit,
            cf_ret, cf_closes, cf_closedTwice>>
flVars == <<fileVars, op, pc, stage, cur, rd_open, result, rfVars, irVars,
            cfVars, rf_failed, rd_leaked>>

rsVars == <<rs_in, rs_pc, rs_out, rs_err>>
dcVars == <<dc_in, dc_pc, dc_channels, dc_names, dc_err>>
exVars == <<ex_in, ex_num, ex_chan_data, ex_df, ex_result>>
stVars == <<st_in, st_pc, st_i, st_dfs, st_columns, st_out, st_err>>
soVars == <<so_in, so_pc, so_i, so_dict, so_out>>
auxVars == <<rsVars, dcVars, exVars, stVars, soVars>>

\* What the actions of one part leave alone: all the other parts.
rsOthers == <<pbVars, flVars, dcVars, exVars, stVars, soVars>>
dcOthers == <<pbVars, flVars, rsVars, exVars, stVars, soVars>>
exOthers == <<pbVars, flVars, rsVars, dcVars, stVars, soVars>>
stOthers == <<pbVars, flVars, rsVars, dcVars, exVars, soVars>>
soOthers == <<pbVars, flVars, rsVars, dcVars, exVars, stVars>>

vars == <<pbVars, flVars, auxVars>>

(***************************************************************************)
(* server.py                                                               *)
(***************************************************************************)

\* GroupStep with a fault: the channel is also appended to the lists of the
\* sample rates met before.
GroupStepAllRates(info, c) ==
    IF channel_info[c].type = "text" \/ channel_info[c].tbase = NoTbase
    THEN info
    ELSE LET t == channel_info[c].tbase IN
         [order    |-> IF t \in Range(info.order) THEN info.order
                       ELSE Append(info.order, t),
          channels |-> [k \in Tbases |->
                          IF k = t \/ k \in Range(info.order)
                          THEN Append(info.channels[k], c)
                          ELSE info.channels[k]]]

\* get_file_info, the loop body for one channel: text channels and channels
\* without $PDA_Tbase are skipped, the others are appended to the list of
\* their sample rate, which is created on first use.
GroupStep(info, c) ==
    IF channel_info[c].type = "text" \/ channel_info[c].tbase = NoTbase
    THEN info
    ELSE LET t == channel_info[c].tbase IN
         [order    |-> IF t \in Range(info.order) THEN info.order
                       ELSE Append(info.order, t),
          channels |-> [info.channels EXCEPT ![t] = Append(@, c)]]

RECURSIVE GroupLoop(_, _)
GroupLoop(info, c) ==
    IF c > NumChans THEN info ELSE GroupLoop(GroupStep(info, c), c + 1)

EmptyInfo == [order |-> <<>>, channels |-> [k \in Tbases |-> <<>>]]

\* get_file_info(iba_file)['channels']
get_file_info == GroupLoop(EmptyInfo, 1)

\* The channels that get_file_info keeps.
Playable(c) == channel_info[c].type # "text" /\ channel_info[c].tbase # NoTbase

\* start(): self.iba_info = self.get_file_info(self.iba_files[0])
GetFileInfo ==
    /\ main_pc = "get_file_info"
    /\ iba_info' = get_file_info
    /\ main_pc' = "init_opc"
    /\ UNCHANGED <<auxVars, flVars, channel_info, frames, opc_value, wv_i, wv_pc, data_read,
                   u_pc, u_idx, u_chan, u_nextCall, u_close, u_tick, now,
                   u_deadline0, u_stopTick, u_stopBetween, u_lastWrite, writers>>

\* init_opc(): every channel of every module gets its own value node.
InitOpc ==
    /\ main_pc = "init_opc"
    /\ opc_value' = [c \in Chans |->
                       IF \E t \in Tbases : c \in Range(iba_info.channels[t])
                       THEN c ELSE 0]
    /\ main_pc' = "write_values"
    /\ wv_i' = 1
    /\ wv_pc' = "read"
    /\ UNCHANGED <<auxVars, flVars, channel_info, frames, iba_info, data_read,
                   u_pc, u_idx, u_chan, u_nextCall, u_close, u_tick, now,
                   u_deadline0, u_stopTick, u_stopBetween, u_lastWrite, writers>>

\* init_opc(): a call on the OPC UA server raises, and start() ends with the
\* error before any data is read.
InitOpcFails ==
    /\ main_pc = "init_opc"
    /\ main_pc' = "failed"
    /\ UNCHANGED <<auxVars, flVars, channel_info, frames, iba_info, opc_value, wv_i, wv_pc,
                   data_read, u_pc, u_idx, u_chan, u_nextCall, u_close, u_tick,
                   now, u_deadline0, u_stopTick, u_stopBetween, u_lastWrite,
                   writers>>

\* _write_values(): the for loop has run through every sample rate.
WriteValuesEnd ==
    /\ main_pc = "write_values"
    /\ wv_i > Len(iba_info.order)
    /\ main_pc' = "serving"
    /\ UNCHANGED <<auxVars, flVars, channel_info, frames, iba_info, opc_value, wv_i, wv_pc,
                   data_read, u_pc, u_idx, u_chan, u_nextCall, u_close, u_tick,
                   now, u_deadline0, u_stopTick, u_stopBetween, u_lastWrite,
                   writers>>

\* _write_values(): data = readIbaFile(...) for the current sample rate.
ReadData ==
    /\ main_pc = "write_values"
    /\ wv_i <= Len(iba_info.order)
    /\ wv_pc = "read"
    /\ data_read' = data_read \cup {iba_info.order[wv_i]}
    /\ wv_pc' = "start"
    /\ UNCHANGED <<auxVars, flVars, channel_info, frames, main_pc, iba_info, opc_value, wv_i,
                   u_pc, u_idx, u_chan, u_nextCall, u_close, u_tick, now,
                   u_deadline0, u_stopTick, u_stopBetween, u_lastWrite, writers>>

\* _write_values(): readIbaFile raises, and start() ends with the error; the
\* threads already started keep running.
ReadDataFails ==
    /\ main_pc = "write_values"
    /\ wv_i <= Len(iba_info.order)
    /\ wv_pc = "read"
    /\ main_pc' = "failed"
    /\ UNCHANGED <<auxVars, flVars, channel_info, frames, iba_info, opc_value, wv_i, wv_pc,
                   data_read, u_pc, u_idx, u_chan, u_nextCall, u_close, u_tick,
                   now, u_deadline0, u_stopTick, u_stopBetween, u_lastWrite,
                   writers>>

\* _write_values(): VariableUpdater(...).start() for the current sample rate;
\* the constructor sets _nextCall = time.time().
StartUpdater ==
    /\ main_pc = "write_values"
    /\ wv_i <= Len(iba_info.order)
    /\ wv_pc = "start"
    /\ LET g == iba_info.order[wv_i] IN
         /\ u_pc' = [u_pc EXCEPT ![g] = "loop"]
         /\ u_nextCall' = [u_nextCall EXCEPT ![g] = now]
         /\ u_deadline0' = [u_deadline0 EXCEPT ![g] = now]
    /\ wv_i' = wv_i + 1
    /\ wv_pc' = "read"
    /\ UNCHANGED <<auxVars, flVars, channel_info, frames, main_pc, iba_info, opc_value,
                   data_read, u_idx, u_chan, u_close, u_tick, now,
                   u_stopTick, u_stopBetween, u_lastWrite, writers>>

\* LoopCondition with a fault: the close event is not looked at.
LoopConditionIgnoresStop(g) == TRUE

\* run(): while not self._close_event.is_set()
LoopCondition(g) == ~u_close[g]

\* run(): the while condition is false and the thread ends.
LoopExit(g) ==
    /\ u_pc[g] = "loop"
    /\ ~LoopCondition(g)
    /\ u_pc' = [u_pc EXCEPT ![g] = "exited"]
    /\ UNCHANGED <<auxVars, flVars, channel_info, frames, main_pc, iba_info, opc_value, wv_i,
                   wv_pc, data_read, u_idx, u_chan, u_nextCall, u_close, u_tick,
                   now, u_deadline0, u_stopTick, u_stopBetween, u_lastWrite,
                   writers>>

\* run(): the while condition is true, an iteration begins:
\* self._nextCall = time.time()
LoopEnter(g) ==
    /\ u_pc[g] = "loop"
    /\ LoopCondition(g)
    /\ u_tick[g] < MaxTicks
    /\ u_tick' = [u_tick EXCEPT ![g] = @ + 1]
    /\ u_nextCall' = [u_nextCall EXCEPT ![g] = now]
    /\ u_chan' = [u_chan EXCEPT ![g] = 1]
    /\ u_pc' = [u_pc EXCEPT ![g] = IF iba_info.channels[g] = <<>>
                                   THEN "advance" ELSE "write"]
    /\ UNCHANGED <<auxVars, flVars, channel_info, frames, main_pc, iba_info, opc_value, wv_i,
                   wv_pc, data_read, u_idx, u_close, now,
                   u_deadline0, u_stopTick, u_stopBetween, u_lastWrite, writers>>

\* run(): self.data[chan['id']][idx] of a frame of `frames` rows: the rows
\* carry the labels 0 .. frames-1, any other label raises KeyError.
HasRow(i) == 0 <= i /\ i < frames

\* run(): one pass of `for chan in self.channel`, the value at idx is set on
\* the channel's node.
SetValue(g) ==
    /\ u_pc[g] = "write"
    /\ HasRow(u_idx[g])
    /\ LET c == iba_info.channels[g][u_chan[g]] IN
         writers' = [writers EXCEPT ![opc_value[c]] = @ \cup {g}]
    /\ u_lastWrite' = [u_lastWrite EXCEPT ![g] = u_tick[g]]
    /\ u_chan' = [u_chan EXCEPT ![g] = @ + 1]
    /\ u_pc' = [u_pc EXCEPT ![g] = IF u_chan[g] = Len(iba_info.channels[g])
                                   THEN "advance" ELSE "write"]
    /\ UNCHANGED <<auxVars, flVars, channel_info, frames, main_pc, iba_info, opc_value, wv_i,
                   wv_pc, data_read, u_idx, u_nextCall, u_close, u_tick, now,
                   u_deadline0, u_stopTick, u_stopBetween>>

\* run(): the row idx does not exist, the lookup raises and the thread dies
\* with the exception.
SetValueRaises(g) ==
    /\ u_pc[g] = "write"
    /\ ~HasRow(u_idx[g])
    /\ u_pc' = [u_pc EXCEPT ![g] = "crashed"]
    /\ UNCHANGED <<auxVars, flVars, channel_info, frames, main_pc, iba_info, opc_value, wv_i,
                   wv_pc, data_read, u_idx, u_chan, u_nextCall, u_close, u_tick,
                   now, u_deadline0, u_stopTick, u_stopBetween, u_lastWrite,
                   writers>>

\* run(): idx += 1; if idx > self.data.shape[0]: idx = 0
NextIdx(i) == IF i + 1 > frames THEN 0 ELSE i + 1

Advance(g) ==
    /\ u_pc[g] = "advance"
    /\ u_idx' = [u_idx EXCEPT ![g] = NextIdx(@)]
    /\ u_pc' = [u_pc EXCEPT ![g] = "schedule"]
    /\ UNCHANGED <<auxVars, flVars, channel_info, frames, main_pc, iba_info, opc_value, wv_i,
                   wv_pc, data_read, u_chan, u_nextCall, u_close, u_tick, now,
                   u_deadline0, u_stopTick, u_stopBetween, u_lastWrite, writers>>

\* The sample period of a thread: period=float(sampleRate).
Period(g) == g

\* run(): self._nextCall = self._nextCall + self.period, then sleep when the
\* deadline lies ahead, else report the overrun and go on.
Schedule(g) ==
    /\ u_pc[g] = "schedule"
    /\ u_nextCall' = [u_nextCall EXCEPT ![g] = @ + Period(g)]
    /\ u_pc' = [u_pc EXCEPT ![g] = IF u_nextCall'[g] - now > 0
                                   THEN "sleep" ELSE "loop"]
    /\ UNCHANGED <<auxVars, flVars, channel_info, frames, main_pc, iba_info, opc_value, wv_i,
                   wv_pc, data_read, u_idx, u_chan, u_close, u_tick, now,
                   u_deadline0, u_stopTick, u_stopBetween, u_lastWrite, writers>>

\* run(): time.sleep(sleepLength) returns, not before the deadline.
Wake(g) ==
    /\ u_pc[g] = "sleep"
    /\ now >= u_nextCall[g]
    /\ u_pc' = [u_pc EXCEPT ![g] = "loop"]
    /\ UNCHANGED <<auxVars, flVars, channel_info, frames, main_pc, iba_info, opc_value, wv_i,
                   wv_pc, data_read, u_idx, u_chan, u_nextCall, u_close, u_tick,
                   now, u_deadline0, u_stopTick, u_stopBetween, u_lastWrite,
                   writers>>

\* stop(): self._close_event.set(), from any other thread at any time.
Stop(g) ==
    /\ u_pc[g] # "none"
    /\ ~u_close[g]
    /\ u_close' = [u_close EXCEPT ![g] = TRUE]
    /\ u_stopTick' = [u_stopTick EXCEPT ![g] = u_tick[g]]
    /\ u_stopBetween' = [u_stopBetween EXCEPT ![g] = (u_pc[g] \in {"sleep", "loop"})]
    /\ UNCHANGED <<auxVars, flVars, channel_info, frames, main_pc, iba_info, opc_value, wv_i,
                   wv_pc, data_read, u_pc, u_idx, u_chan, u_nextCall, u_tick,
                   now, u_deadline0, u_lastWrite, writers>>

\* The clock advances.
Pass ==
    /\ now < MaxTime
    /\ now' = now + 1
    /\ UNCHANGED <<auxVars, flVars, channel_info, frames, main_pc, iba_info, opc_value, wv_i,
                   wv_pc, data_read, u_pc, u_idx, u_chan, u_nextCall, u_close,
                   u_tick, u_deadline0, u_stopTick, u_stopBetween, u_lastWrite,
                   writers>>


(***************************************************************************)
(* pyIbaTools.py                                                           *)
(*                                                                         *)
(* ibaFilesLite is not part of the repository.  Its reader is taken as     *)
(* section 6 of the specification describes it: Open raises RuntimeError   *)
(* on a file that is missing or cannot be opened, IsOpen tells whether the *)
(* reader holds a file, and Close leaves the reader closed (also when it   *)
(* was closed already).  __cache_prep__ is left out: it reads the raw file *)
(* and never touches the reader.                                           *)
(***************************************************************************)

\* readIbaFiles(iba_file_list, ...): the files in the order given.
iba_file_list == [i \in 1..NumFiles |-> i]

\* reader.Open(iba_file) succeeds.
CanOpen(f) == f_exists[f] /\ f_desc[f].kind # "unopenable"

\* MayOpen with a fault: Open is reached whatever isCurrentPDA said.
MayOpenAlways(written) == TRUE

\* ibaReader: `if ibaFilesLite.isCurrentPDA(iba_file): raise ...` stands in
\* front of reader.Open.
MayOpen(written) == ~written

\* CloseIfOwned with a fault: reader.Close() whatever close_file says.
CloseAlways(open, owned) == FALSE

\* __check_file__: the reader after `if close_file: reader.Close()`.
CloseIfOwned(open, owned) == IF owned THEN FALSE ELSE open

\* IsIncomplete with a fault: frames > 1000000000.
IsIncompleteAbove(n) == n > FrameLimit

\* __check_file__: `if frames >= 1000000000`
IsIncomplete(n) == n >= FrameLimit

\* An exception e leaves the public call; inside a `with ibaReader` block the
\* generator is not resumed behind its yield, so its reader.Close() is skipped.
Raise(e, inWith) ==
    /\ result' = e
    /\ pc' = "done"
    /\ rd_leaked' = (inWith /\ rd_open')
    /\ rf_failed' = IF op = "readIbaFiles" THEN rf_failed \cup {cur} ELSE rf_failed

\* __check_file__ ends with e ("ok": it returns) and the reader open or not;
\* control goes back to the caller.
CfLeave(e, openAfter) ==
    /\ cf_exit' = e
    /\ cf_openAtExit' = openAfter
    /\ rd_open' = openAfter
    /\ IF e = "ok"
       THEN /\ pc' = CASE op = "validate" -> "done"
                       [] op = "checkFile" -> "ir_exit"
                       [] OTHER -> "rf_body"
            /\ result' = IF op = "validate" THEN "ok" ELSE result
            /\ UNCHANGED <<rd_leaked, rf_failed>>
       ELSE Raise(e, op # "validate")

\* No invocation of __check_file__ has taken place for the current file.
CfFresh ==
    /\ close_file' = FALSE
    /\ cf_openAtEntry' = FALSE
    /\ cf_queryOk' = FALSE
    /\ cf_exit' = "none"
    /\ cf_openAtExit' = FALSE
    /\ cf_ret' = <<>>
    /\ cf_closes' = 0
    /\ cf_closedTwice' = FALSE

\* A public call begins: the state of the previous one is dropped.
Begin(o, f, open, p) ==
    /\ pc = "done"
    /\ op' = o
    /\ cur' = f
    /\ rd_open' = open
    /\ pc' = p
    /\ stage' = "read"
    /\ result' = "none"
    /\ rf_i' = 1
    /\ dfs' = <<>>
    /\ stacked' = <<>>
    /\ ir_written' = FALSE
    /\ ir_opens' = 0
    /\ CfFresh
    /\ rf_failed' = {}
    /\ rd_leaked' = FALSE
    /\ UNCHANGED <<auxVars, pbVars, fileVars>>

\* checkFile(iba_file): with ibaReader(iba_file) as reader: return __check_file__
CallCheckFile(f) ==
    /\ Begin("checkFile", f, FALSE, "ir_check")
    /\ UNCHANGED decl_reads

\* __check_file__(reader, iba_file) with a reader the caller has opened on
\* the file (owned = FALSE) or has not opened (owned = TRUE).
CallValidate(f, owned) ==
    /\ ~owned => CanOpen(f)
    /\ Begin("validate", f, ~owned, "cf_entry")
    /\ UNCHANGED decl_reads

\* readIbaFiles(iba_file_list, channels, names, ...): d tells whether the
\* channels and names given make __declaration_check__ call get_channels.
CallReadIbaFiles(d) ==
    /\ Begin("readIbaFiles", iba_file_list[1], FALSE, "rf_next")
    /\ decl_reads' = d

\* readIbaFiles: the for loop takes the next file and calls readIbaFile on
\* it, or has run through the list and returns pd.concat(dfs).
RfNext ==
    /\ pc = "rf_next"
    /\ IF rf_i > NumFiles
       THEN /\ stacked' = dfs
            /\ result' = "ok"
            /\ pc' = "done"
            /\ UNCHANGED <<cur, stage, irVars, cfVars>>
       ELSE /\ cur' = iba_file_list[rf_i]
            /\ stage' = IF decl_reads THEN "decl" ELSE "read"
            /\ pc' = "ir_check"
            /\ ir_written' = FALSE
            /\ ir_opens' = 0
            /\ CfFresh
            /\ UNCHANGED <<stacked, result>>
    /\ UNCHANGED <<auxVars, pbVars, fileVars, op, rd_open, decl_reads, rf_i, dfs,
                   rf_failed, rd_leaked>>

\* ibaReader: isCurrentPDA is evaluated, and when it is true
\* IbaFileIsCurrentlyWrittenError is raised.
IrCheck ==
    /\ pc = "ir_check"
    /\ ir_written' = f_written[cur]
    /\ ir_opens' = 0
    /\ IF MayOpen(f_written[cur])
       THEN /\ pc' = "ir_open"
            /\ UNCHANGED <<result, rd_leaked, rf_failed>>
       ELSE Raise("FileCurrentlyWritten", FALSE)
    /\ UNCHANGED <<auxVars, pbVars, fileVars, op, stage, cur, rd_open, rfVars, cfVars>>

\* ibaReader: reader = FileReader(); reader.Open(iba_file); a RuntimeError
\* becomes FileNotFoundError when the file is gone and is raised again when
\* it is still there.
IrOpen ==
    /\ pc = "ir_open"
    /\ ir_opens' = ir_opens + 1
    /\ IF CanOpen(cur)
       THEN /\ rd_open' = TRUE
            /\ pc' = IF stage = "decl" THEN "gc_enum" ELSE "cf_entry"
            /\ UNCHANGED <<result, rd_leaked, rf_failed>>
       ELSE /\ rd_open' = FALSE
            /\ Raise(IF f_exists[cur] THEN "RuntimeError" ELSE "FileNotFound", FALSE)
    /\ UNCHANGED <<auxVars, pbVars, fileVars, op, stage, cur, rfVars, ir_written, cfVars>>

\* get_channels: the names are enumerated, the with block ends and
\* ibaReader closes the reader; readIbaFile goes on to its own ibaReader.
GcEnum ==
    /\ pc = "gc_enum"
    /\ rd_open' = FALSE
    /\ stage' = "read"
    /\ pc' = "ir_check"
    /\ UNCHANGED <<auxVars, pbVars, fileVars, op, cur, result, rfVars, irVars, cfVars,
                   rf_failed, rd_leaked>>

\* __check_file__: close_file = False; if not reader.IsOpen():
\* close_file = True; reader.Open(iba_file)
CfEntry ==
    /\ pc = "cf_entry"
    /\ cf_openAtEntry' = rd_open
    /\ close_file' = ~rd_open
    /\ IF rd_open
       THEN /\ pc' = "cf_query"
            /\ UNCHANGED <<rd_open, result, rd_leaked, rf_failed, ir_opens,
                           cf_exit, cf_openAtExit>>
       ELSE /\ ir_opens' = ir_opens + 1
            /\ IF CanOpen(cur)
               THEN /\ rd_open' = TRUE
                    /\ pc' = "cf_query"
                    /\ UNCHANGED <<result, rd_leaked, rf_failed, cf_exit,
                                   cf_openAtExit>>
               ELSE CfLeave("RuntimeError", FALSE)
    /\ UNCHANGED <<auxVars, pbVars, fileVars, op, stage, cur, rfVars, ir_written,
                   cf_queryOk, cf_ret, cf_closes, cf_closedTwice>>

\* __check_file__: clk and frames are read, and inside the try block
\* `if close_file: reader.Close()`.
CfQueryOk ==
    /\ pc = "cf_query"
    /\ f_desc[cur].kind \in {"good", "nodata"}
    /\ cf_queryOk' = TRUE
    /\ rd_open' = CloseIfOwned(rd_open, close_file)
    /\ cf_closes' = cf_closes + (IF close_file THEN 1 ELSE 0)
    /\ cf_closedTwice' = (cf_closedTwice \/ (close_file /\ ~rd_open))
    /\ pc' = "cf_limit"
    /\ UNCHANGED <<auxVars, pbVars, fileVars, op, stage, cur, result, rfVars, irVars,
                   close_file, cf_openAtEntry, cf_exit, cf_openAtExit, cf_ret,
                   rf_failed, rd_leaked>>

\* __check_file__: a QueryInfoByName call or the conversion of its answer
\* raises (the header is damaged, or the file has gone meanwhile).
CfQueryFails ==
    /\ pc = "cf_query"
    /\ f_desc[cur].kind = "damaged" \/ ~f_exists[cur]
    /\ pc' = "cf_except"
    /\ UNCHANGED <<auxVars, pbVars, fileVars, op, stage, cur, rd_open, result, rfVars,
                   irVars, cfVars, rf_failed, rd_leaked>>

\* __check_file__: the except block: `if close_file: reader.Close()`, then
\* FileNotFoundError when the file is gone, else IbaFileDamagedError.
CfExcept ==
    /\ pc = "cf_except"
    /\ cf_closes' = cf_closes + (IF close_file THEN 1 ELSE 0)
    /\ cf_closedTwice' = (cf_closedTwice \/ (close_file /\ ~rd_open))
    /\ CfLeave(IF f_exists[cur] THEN "FileDamaged" ELSE "FileNotFound",
               CloseIfOwned(rd_open, close_file))
    /\ UNCHANGED <<auxVars, pbVars, fileVars, op, stage, cur, rfVars, irVars,
                   close_file, cf_openAtEntry, cf_queryOk, cf_ret>>

\* __check_file__: `if frames >= 1000000000`: `if close_file: reader.Close()`
\* and IbaFileNotCompleteError; else `return clk, frames`.
CfLimit ==
    /\ pc = "cf_limit"
    /\ IF IsIncomplete(f_desc[cur].frames)
       THEN /\ cf_closes' = cf_closes + (IF close_file THEN 1 ELSE 0)
            /\ cf_closedTwice' = (cf_closedTwice \/ (close_file /\ ~rd_open))
            /\ cf_ret' = cf_ret
            /\ CfLeave("FileIncomplete", CloseIfOwned(rd_open, close_file))
       ELSE /\ cf_ret' = <<f_desc[cur].clk, f_desc[cur].frames>>
            /\ UNCHANGED <<cf_closes, cf_closedTwice>>
            /\ CfLeave("ok", rd_open)
    /\ UNCHANGED <<auxVars, pbVars, fileVars, op, stage, cur, rfVars, irVars,
                   close_file, cf_openAtEntry, cf_queryOk>>

\* checkFile: the with block ends by `return`, ibaReader closes the reader.
IrExit ==
    /\ pc = "ir_exit"
    /\ rd_open' = FALSE
    /\ result' = "ok"
    /\ pc' = "done"
    /\ UNCHANGED <<auxVars, pbVars, fileVars, op, stage, cur, rfVars, irVars, cfVars,
                   rf_failed, rd_leaked>>

\* readIbaFile: the channels are read into the frame, the with block ends and
\* ibaReader closes the reader; readIbaFiles collects the frame.
RfBody ==
    /\ pc = "rf_body"
    /\ f_desc[cur].kind = "good"
    /\ rd_open' = FALSE
    /\ dfs' = Append(dfs, cur)
    /\ rf_i' = rf_i + 1
    /\ pc' = "rf_next"
    /\ UNCHANGED <<auxVars, pbVars, fileVars, op, stage, cur, result, decl_reads, stacked,
                   irVars, cfVars, rf_failed, rd_leaked>>

\* readIbaFile: QueryData returns None and __read_numeric_channel__ raises
\* IbaFileDamagedError inside the with block.
RfBodyFails ==
    /\ pc = "rf_body"
    /\ f_desc[cur].kind = "nodata"
    /\ UNCHANGED rd_open
    /\ Raise("FileDamaged", TRUE)
    /\ UNCHANGED <<auxVars, pbVars, fileVars, op, stage, cur, rfVars, irVars, cfVars>>

\* The environment: a file is removed; the recorder no longer writes it.
Remove(f) ==
    /\ f_exists[f]
    /\ f_exists' = [f_exists EXCEPT ![f] = FALSE]
    /\ f_written' = [f_written EXCEPT ![f] = FALSE]
    /\ UNCHANGED <<auxVars, pbVars, f_desc, op, pc, stage, cur, rd_open,
                   result, rfVars, irVars, cfVars, rf_failed, rd_leaked>>

\* The environment: the recorder finishes a file.
Release(f) ==
    /\ f_written[f]
    /\ f_written' = [f_written EXCEPT ![f] = FALSE]
    /\ UNCHANGED <<auxVars, pbVars, f_desc, f_exists, op, pc, stage, cur, rd_open,
                   result, rfVars, irVars, cfVars, rf_failed, rd_leaked>>

(***************************************************************************)
(* pyIbaTools.py: reading one channel at the wanted sample rate            *)
(* (__read_numeric_channel__, __read_text_channel__, and the time axis of  *)
(* readIbaFile).  Times are whole numbers of one unit.                     *)
(***************************************************************************)
RsClks == {1, 2}            \* clk: the sample period of the file
Texts == {"A", "B"}         \* the strings of a text channel

\* chan_reader.QueryTextData(): (time, text) pairs in ascending time.
TextEvents ==
    {<<>>}
        \cup {<<[t |-> a, text |-> x]>> : a \in 0..MaxFrames, x \in Texts}
        \cup {<<[t |-> a, text |-> x], [t |-> b, text |-> y]>> :
                a \in 0..MaxFrames, b \in 1..MaxFrames, x \in Texts, y \in Texts}

\* A series of n samples, each sample named by its position.
Samples(n) == [i \in 1..n |-> i]

RsInputs ==
    {in \in [kind : {"numeric"}, none : BOOLEAN,
             channel_data : {Samples(n) : n \in 0..MaxFrames},
             Timebase : {1, 2, 4}, tbase : 0..MaxTbase, clk : RsClks, frames : {0}] :
        in.Timebase % in.clk = 0}
        \cup [kind : {"text"}, none : BOOLEAN,
              channel_data : {e \in TextEvents : Len(e) < 2 \/ e[1].t < e[2].t},
              Timebase : {1}, tbase : 0..MaxTbase, clk : RsClks, frames : 0..MaxFrames]
        \cup [kind : {"time"}, none : {FALSE}, channel_data : {<<>>},
              Timebase : {1}, tbase : 0..MaxTbase, clk : RsClks, frames : 0..MaxFrames]

\* s[::step] for step >= 1: the elements at the positions 0, step, 2 step, ..
Slice(s, step) ==
    [i \in 1..((Len(s) + step - 1) \div step) |-> s[(i - 1) * step + 1]]

\* np.repeat(s, n): every element n times over.
Repeat(s, n) == [i \in 1..(Len(s) * n) |-> s[((i - 1) \div n) + 1]]

\* `if tbase != 0: data = data[::int(tbase / clk)]`: int() cuts the quotient
\* off, and a step of 0 makes the slice raise ValueError.
Decimate(s, tbase, clk) ==
    IF tbase = 0 THEN [out |-> s, err |-> "none"]
    ELSE IF tbase \div clk = 0 THEN [out |-> <<>>, err |-> "ValueError"]
    ELSE [out |-> Slice(s, tbase \div clk), err |-> "none"]

\* The data of a numeric channel before the decimation: repeated when the
\* channel is slower than the file (fct = chn_clk / clk, cut off by repeat).
NativeNumeric(in) ==
    IF in.Timebase # in.clk
    THEN Repeat(in.channel_data, in.Timebase \div in.clk)
    ELSE in.channel_data

read_numeric_channel(in) ==
    IF in.none THEN [out |-> <<>>, err |-> "IbaFileDamagedError"]
    ELSE Decimate(NativeNumeric(in), in.tbase, in.clk)

\* `for idx_list in range(start_idx, end_idx): processed_data[idx_list] = cur_str`
Fill(processed_data, start_idx, end_idx, cur_str) ==
    [i \in 1..Len(processed_data) |->
        IF start_idx <= i - 1 /\ i - 1 < end_idx THEN cur_str ELSE processed_data[i]]

\* The loop of __read_text_channel__ from the event at idx (counted from 0, as
\* enumerate does): end_idx is read from channel_data[idx], the event itself.
RECURSIVE TextLoop(_, _, _, _, _)
TextLoop(processed_data, channel_data, idx, clk, n_frames) ==
    IF idx >= Len(channel_data) THEN processed_data
    ELSE LET text_data == channel_data[idx + 1]
             start_idx == text_data.t \div clk
             end_idx == IF idx < Len(channel_data)
                        THEN channel_data[idx + 1].t \div clk
                        ELSE n_frames
         IN  TextLoop(Fill(processed_data, start_idx, end_idx, text_data.text),
                      channel_data, idx + 1, clk, n_frames)

read_text_channel(in) ==
    IF in.none THEN [out |-> <<>>, err |-> "IbaFileDamagedError"]
    ELSE Decimate(TextLoop([i \in 1..in.frames |-> ""], in.channel_data, 0,
                           in.clk, in.frames),
                  in.tbase, in.clk)

\* readIbaFile: the time axis, np.linspace over the frames, then decimated.
time_data(in) == Decimate(Samples(in.frames), in.tbase, in.clk)

\* What is shared by the three reads: the call ends with r.
RsReturn(r) ==
    /\ rs_out' = r.out
    /\ rs_err' = r.err
    /\ rs_pc' = "done"
    /\ UNCHANGED <<rs_in, rsOthers>>

ReadNumericChannel ==
    /\ rs_pc = "call"
    /\ rs_in.kind = "numeric"
    /\ RsReturn(read_numeric_channel(rs_in))

ReadTextChannel ==
    /\ rs_pc = "call"
    /\ rs_in.kind = "text"
    /\ RsReturn(read_text_channel(rs_in))

TimeAxis ==
    /\ rs_pc = "call"
    /\ rs_in.kind = "time"
    /\ RsReturn(time_data(rs_in))

ResampleIdle ==
    /\ rs_in = [kind |-> "none"]
    /\ rs_pc = "idle"
    /\ rs_out = <<>>
    /\ rs_err = "none"

(***************************************************************************)
(* pyIbaTools.py: __declaration_check__ and get_channels.  A string is the *)
(* sequence of its characters, so that split, strip and `in` are computed. *)
(***************************************************************************)
Delimiter == ","            \* delimiter=',' of readIbaFile

\* The texts a declaration is made of: ids, a part of an id, a channel name,
\* the empty string.
Tokens == {<<"3", ":", "0">>, <<"3", ":", "1">>, <<"9", ":", "9">>, <<"3">>,
           <<"S">>, <<>>}
DisplayNames == {<<"X">>, <<"Y">>}

\* reader.EnumerateChannels(): (id, name) pairs; id is str(info[0])[3:].
ChannelTable == <<[id |-> <<"3", ":", "0">>, name |-> <<"S">>],
                  [id |-> <<"3", ":", "1">>, name |-> <<"T">>]>>
Infos == {SubSeq(ChannelTable, 1, k) : k \in 0..Len(ChannelTable)}

\* An entry of a channels list: one id or name, or a list of alternatives.
One(str) == [alt |-> FALSE, s |-> str, g |-> <<>>]
Alt(grp) == [alt |-> TRUE, s |-> <<>>, g |-> grp]
Items == {One(t) : t \in Tokens} \cup {Alt(<<<<"9", ":", "9">>, <<"3", ":", "0">>>>)}

SeqsUpTo(S, n) == UNION {[1..k -> S] : k \in 0..n}

\* delimiter.join(tokens), every token set between blanks when pad.
RECURSIVE Join(_, _)
Join(tokens, pad) ==
    IF tokens = <<>> THEN <<>>
    ELSE LET tok == IF pad THEN <<" ">> \o Head(tokens) \o <<" ">> ELSE Head(tokens)
         IN  IF Len(tokens) = 1 THEN tok
             ELSE tok \o <<Delimiter>> \o Join(Tail(tokens), pad)

\* str.split(delimiter): the pieces between the delimiters, empty ones kept.
RECURSIVE Split(_)
Split(str) ==
    IF \A i \in 1..Len(str) : str[i] # Delimiter THEN <<str>>
    ELSE LET k == CHOOSE i \in 1..Len(str) :
                    str[i] = Delimiter /\ \A j \in 1..(i - 1) : str[j] # Delimiter
         IN  <<SubSeq(str, 1, k - 1)>> \o Split(SubSeq(str, k + 1, Len(str)))

\* str.strip()
RECURSIVE Strip(_)
Strip(str) ==
    IF str # <<>> /\ Head(str) = " " THEN Strip(Tail(str))
    ELSE IF str # <<>> /\ str[Len(str)] = " " THEN Strip(SubSeq(str, 1, Len(str) - 1))
    ELSE str

\* [el.strip() for el in str.split(delimiter)]
SplitStrip(str) == LET parts == Split(str) IN [i \in 1..Len(parts) |-> Strip(parts[i])]

\* `a in b` of two strings.
IsSubstring(a, b) == \E i \in 0..(Len(b) - Len(a)) : SubSeq(b, i + 1, i + Len(a)) = a

\* get_channels, the inner loop: the names of the infos that cid matches.
Matches(infos, cid) ==
    LET hit == SelectSeq(infos, LAMBDA info : IsSubstring(cid, info.id) \/ cid = info.name)
    IN  [i \in 1..Len(hit) |-> hit[i].name]

RECURSIVE MatchAll(_, _)
MatchAll(infos, ids) ==
    IF ids = <<>> THEN <<>>
    ELSE Matches(infos, Head(ids).s) \o MatchAll(infos, Tail(ids))

\* get_channels(iba_file): all channel names.
get_channels_all(infos) == [i \in 1..Len(infos) |-> infos[i].name]

\* get_channels(iba_file, ids): `cid in str(...)` raises TypeError when cid is
\* a list, which happens as soon as the file has a channel to compare with.
get_channels(infos, ids) ==
    IF infos # <<>> /\ \E i \in 1..Len(ids) : ids[i].alt
    THEN [err |-> "TypeError", val |-> <<>>]
    ELSE [err |-> "none", val |-> MatchAll(infos, ids)]

\* The channels argument: None, a string, a list or a dict (its items in
\* insertion order, the keys distinct).
DcChannels ==
    [form : {"none"}, val : {<<>>}]
        \cup [form : {"str"},
              val : {<<"*">>} \cup {Join(ts, pad) : ts \in SeqsUpTo(Tokens, MaxDecl),
                                                    pad \in BOOLEAN}]
        \cup [form : {"list"}, val : SeqsUpTo(Items, MaxDecl)]
        \cup [form : {"dict"},
              val : {d \in SeqsUpTo([key : Tokens, value : DisplayNames], MaxDecl) :
                        \A i, j \in 1..Len(d) : d[i].key = d[j].key => i = j}]

\* The names argument: None, a string or a list.
DcNames ==
    [form : {"none"}, val : {<<>>}]
        \cup [form : {"str"},
              val : {Join(ns, pad) : ns \in SeqsUpTo(DisplayNames, MaxDecl),
                                     pad \in BOOLEAN}]
        \cup [form : {"list"}, val : SeqsUpTo(DisplayNames, MaxDecl)]

ListOf(strs) == [form |-> "list", val |-> strs]
Ones(strs) == [i \in 1..Len(strs) |-> One(strs[i])]

\* The dict branch with a fault: a names list that was passed is kept.
DictNamesKept(names, d) ==
    IF names.form = "list" THEN names ELSE ListOf([i \in 1..Len(d) |-> d[i].value])

\* `names = list(channels.values())`
DictNames(names, d) == ListOf([i \in 1..Len(d) |-> d[i].value])

\* `if type(names) == str: names = [el.strip() for el in names.split(delimiter)]`
DeclNames ==
    /\ dc_pc = "names"
    /\ dc_names' = IF dc_names.form = "str" THEN ListOf(SplitStrip(dc_names.val))
                   ELSE dc_names
    /\ dc_pc' = "channels"
    /\ UNCHANGED <<dc_in, dc_channels, dc_err, dcOthers>>

\* The four branches on the channels argument.
DeclChannels ==
    /\ dc_pc = "channels"
    /\ LET c == dc_in.channels IN
       IF c.form = "none" \/ (c.form = "str" /\ c.val \in {<<>>, <<"*">>})
       THEN /\ dc_channels' = Ones(get_channels_all(dc_in.infos))
            /\ dc_names' = ListOf(get_channels_all(dc_in.infos))
       ELSE IF c.form = "str"
       THEN /\ dc_channels' = Ones(SplitStrip(c.val))
            /\ UNCHANGED dc_names
       ELSE IF c.form = "dict"
       THEN /\ dc_names' = DictNames(dc_names, c.val)
            /\ dc_channels' = [i \in 1..Len(c.val) |-> One(c.val[i].key)]
       ELSE /\ dc_channels' = SelectSeq(c.val, LAMBDA chn : chn.alt \/ chn.s # <<>>)
            /\ UNCHANGED dc_names
    /\ dc_pc' = "compare"
    /\ UNCHANGED <<dc_in, dc_err, dcOthers>>

\* `if (not isinstance(names, list)) or (len(channels) != len(names)):
\*      names = get_channels(iba_file, channels)`, then the return.
DeclCompare ==
    /\ dc_pc = "compare"
    /\ IF dc_names.form # "list" \/ Len(dc_channels) # Len(dc_names.val)
       THEN LET r == get_channels(dc_in.infos, dc_channels) IN
            /\ dc_err' = r.err
            /\ dc_names' = IF r.err = "none" THEN ListOf(r.val) ELSE dc_names
       ELSE UNCHANGED <<dc_names, dc_err>>
    /\ dc_pc' = "done"
    /\ UNCHANGED <<dc_in, dc_channels, dcOthers>>

DeclIdle ==
    /\ dc_in = [infos |-> <<>>]
    /\ dc_pc = "idle"
    /\ dc_channels = <<>>
    /\ dc_names = [form |-> "none", val |-> <<>>]
    /\ dc_err = "none"

(***************************************************************************)
(* pyIbaTools.py: readIbaFile, the loop over the channels (lines 253-294). *)
(* The data of a channel is named by the channel it was read from.         *)
(***************************************************************************)
ExChans == {"a", "b"}       \* the channels a file may hold
\* An entry of channels: one channel, or a list of alternatives.
ExItems ==
    [alt : {FALSE}, s : ExChans, g : {<<>>}]
        \cup [alt : {TRUE}, s : {""}, g : {<<"a", "b">>, <<"b", "a">>}]

ExInputs ==
    {in \in [channels : SeqsUpTo(ExItems, MaxDecl), names : SeqsUpTo(1..MaxDecl, MaxDecl),
             avail : SUBSET ExChans, ignore : BOOLEAN] :
        in.names = [i \in 1..Len(in.channels) |-> i]}

\* The alternatives of a group that __read_channel__ finds, in their order.
Found(grp, avail) == SelectSeq(grp, LAMBDA alt_chn : alt_chn \in avail)

\* `df[name] = chan_data`: a new column, or new data for the column `name`.
SetColumn(df, name, data) ==
    IF \E i \in 1..Len(df) : df[i].name = name
    THEN [i \in 1..Len(df) |-> IF df[i].name = name THEN [name |-> name, data |-> data]
                                ELSE df[i]]
    ELSE Append(df, [name |-> name, data |-> data])

\* Lines 290-294: chan_data, as it stands, is stored under names[num]; an
\* unbound chan_data raises inside the try and comes out as DataStackingError.
ExStore(chan_data) ==
    /\ ex_chan_data' = chan_data
    /\ IF chan_data = "unbound"
       THEN /\ ex_result' = "DataStackingError"
            /\ UNCHANGED <<ex_df, ex_num>>
       ELSE /\ ex_df' = SetColumn(ex_df, ex_in.names[ex_num], chan_data)
            /\ ex_num' = ex_num + 1
            /\ UNCHANGED ex_result

ExRaise(e) ==
    /\ ex_result' = e
    /\ UNCHANGED <<ex_num, ex_chan_data, ex_df>>

\* One iteration on a single channel: read and stored, or, not found,
\* skipped (ignore) or ChannelNotFoundError.
ExSingle ==
    /\ ex_result = "run"
    /\ ex_num <= Len(ex_in.channels)
    /\ ~ex_in.channels[ex_num].alt
    /\ LET chn == ex_in.channels[ex_num].s IN
       IF chn \in ex_in.avail THEN ExStore(chn)
       ELSE IF ex_in.ignore
       THEN /\ ex_num' = ex_num + 1
            /\ UNCHANGED <<ex_chan_data, ex_df, ex_result>>
       ELSE ExRaise("ChannelNotFoundError")
    /\ UNCHANGED <<ex_in, exOthers>>

\* One iteration on a list of alternatives: the first one found is read;
\* with none found it raises unless ignore, and with ignore goes on to the
\* store with chan_data as the iterations before left it.
ExGroup ==
    /\ ex_result = "run"
    /\ ex_num <= Len(ex_in.channels)
    /\ ex_in.channels[ex_num].alt
    /\ LET found == Found(ex_in.channels[ex_num].g, ex_in.avail)
           any_channel_found == found # <<>>
       IN  IF any_channel_found THEN ExStore(Head(found))
           ELSE IF ~ex_in.ignore THEN ExRaise("ChannelNotFoundError")
           ELSE ExStore(ex_chan_data)
    /\ UNCHANGED <<ex_in, exOthers>>

\* The loop is over: the frame is returned.
ExReturn ==
    /\ ex_result = "run"
    /\ ex_num > Len(ex_in.channels)
    /\ ex_result' = "ok"
    /\ UNCHANGED <<ex_in, ex_num, ex_chan_data, ex_df, exOthers>>

ExtractIdle ==
    /\ ex_in = [ignore |-> FALSE]
    /\ ex_num = 1
    /\ ex_chan_data = "unbound"
    /\ ex_df = <<>>
    /\ ex_result = "idle"

(***************************************************************************)
(* pyIbaTools.py: readIbaFiles, the frames of the files and their stack.   *)
(* A frame is its file, its number of rows and, for every column name,     *)
(* what its cells hold: "absent" (no such column), "value", "None", "NaN". *)
(***************************************************************************)
ColNames == {"Time", "x", "y", "z"}
ColumnSets == {{"Time", "x", "y"}, {"Time", "x", "z"}, {"Time", "x"}}
StartTimes == {1, 2, 3}     \* reader.GetStartTime() of a file

\* What readIbaFile returns for a file of the list.
StackFiles == [start : StartTimes, columns : ColumnSets, rows : 1..MaxLen]

\* temp_df of the file at position i of the list.
ReadFrame(i, fd) ==
    [file |-> i, rows |-> fd.rows,
     cells |-> [c \in ColNames |-> IF c \in fd.columns THEN "value" ELSE "absent"]]

\* df.columns
Columns(df) == {c \in ColNames : df.cells[c] # "absent"}

\* CollectFrame with a fault: the frame is put in front of the list.
CollectFrameFront(frames_list, df) == <<df>> \o frames_list

\* `dfs = dfs + [temp_df.copy()]`
CollectFrame(frames_list, df) == Append(frames_list, df)

\* FillColumn with a fault: the column is filled with a number.
FillColumnZero(df, missing_columns) ==
    [df EXCEPT !.cells = [c \in ColNames |->
                            IF c \in missing_columns THEN "value" ELSE df.cells[c]]]

\* `for column in missing_columns: df[column] = None`
FillColumn(df, missing_columns) ==
    [df EXCEPT !.cells = [c \in ColNames |->
                            IF c \in missing_columns THEN "None" ELSE df.cells[c]]]

\* pd.concat(dfs, ignore_index=True): the rows of the frames one frame after
\* the other, over the union of their columns, NaN where a frame has none.
RECURSIVE ConcatRows(_, _)
ConcatRows(frames_list, cols) ==
    IF frames_list = <<>> THEN <<>>
    ELSE LET df == Head(frames_list)
             row == [file |-> df.file,
                     cells |-> [c \in ColNames |->
                                  IF df.cells[c] # "absent" THEN df.cells[c]
                                  ELSE IF c \in cols THEN "NaN" ELSE "absent"]]
         IN  [k \in 1..df.rows |-> row] \o ConcatRows(Tail(frames_list), cols)

Concat(frames_list) ==
    ConcatRows(frames_list, UNION {Columns(frames_list[i]) : i \in 1..Len(frames_list)})

\* The first loop, one file: read, collected, its columns noted.
StackRead ==
    /\ st_pc = "read"
    /\ LET temp_df == ReadFrame(st_i, st_in[st_i]) IN
       /\ st_dfs' = CollectFrame(st_dfs, temp_df)
       /\ st_columns' = st_columns \cup Columns(temp_df)
    /\ IF st_i = Len(st_in)
       THEN st_pc' = "fill" /\ st_i' = 1
       ELSE st_pc' = "read" /\ st_i' = st_i + 1
    /\ UNCHANGED <<st_in, st_out, st_err, stOthers>>

\* The second loop, one frame: the columns it lacks are added.
StackFill ==
    /\ st_pc = "fill"
    /\ LET df == st_dfs[st_i]
           missing_columns == st_columns \ Columns(df)
       IN  st_dfs' = [st_dfs EXCEPT ![st_i] = FillColumn(df, missing_columns)]
    /\ IF st_i = Len(st_dfs)
       THEN st_pc' = "concat" /\ st_i' = 1
       ELSE st_pc' = "fill" /\ st_i' = st_i + 1
    /\ UNCHANGED <<st_in, st_columns, st_out, st_err, stOthers>>

\* `return pd.concat(dfs, ignore_index=True)`; an empty list makes it raise.
StackConcat ==
    /\ st_pc = "concat"
    /\ IF st_dfs = <<>>
       THEN st_err' = "ValueError" /\ UNCHANGED st_out
       ELSE st_out' = Concat(st_dfs) /\ UNCHANGED st_err
    /\ st_pc' = "done"
    /\ UNCHANGED <<st_in, st_i, st_dfs, st_columns, stOthers>>

StackIdle ==
    /\ st_in = <<>>
    /\ st_pc = "idle"
    /\ st_i = 1
    /\ st_dfs = <<>>
    /\ st_columns = {}
    /\ st_out = <<>>
    /\ st_err = "none"

(***************************************************************************)
(* pyIbaTools.py: sortIbaFiles and get_start_time.  A file is described by *)
(* the number of lines it has, the line that begins with `starttime:` (0:  *)
(* none), the format of the date on it, whether ibaReader and its          *)
(* GetStartTime succeed, and the start time both would give.               *)
(***************************************************************************)
DateFormats == {"frac", "nofrac", "bad"}    \* with %f, without, neither

\* The loop of get_start_time from the line it has just read: the value of
\* line_idx when the loop is left.
RECURSIVE ScanLoop(_, _)
ScanLoop(fd, line_idx) ==
    IF fd.pos = line_idx THEN line_idx
    ELSE IF line_idx + 1 > HeaderLimit THEN line_idx + 1
    ELSE ScanLoop(fd, line_idx + 1)

\* `f.tell() == file_size or line_idx > 20`: the lines read are the file's
\* last, or the loop gave up.
ScanFailed(fd, line_idx) == line_idx >= fd.lines \/ line_idx > HeaderLimit

get_start_time(fd) ==
    IF ~fd.exists THEN [err |-> "FileNotFoundError", time |-> 0]
    ELSE IF ScanFailed(fd, ScanLoop(fd, 1))
    THEN IF fd.reader THEN [err |-> "none", time |-> fd.start]
         ELSE [err |-> "RuntimeError", time |-> 0]
    ELSE IF fd.fmt = "bad" THEN [err |-> "ValueError", time |-> 0]
    ELSE [err |-> "none", time |-> fd.start]

\* The files: a description differs from another in something that
\* get_start_time looks at.
SortFiles ==
    {fd \in [exists : BOOLEAN, lines : {0, 2, HeaderLimit + 2},
             pos : {0, 1, 2, HeaderLimit, HeaderLimit + 1},
             fmt : DateFormats, reader : BOOLEAN, start : StartTimes] :
        /\ fd.pos <= fd.lines
        /\ fd.lines = 2 => fd.pos = 2
        /\ fd.lines > 2 => fd.pos # 2
        /\ ~fd.exists => fd.lines = 0 /\ fd.start = 1
        /\ (fd.exists /\ ~ScanFailed(fd, ScanLoop(fd, 1))) => fd.reader
        /\ (~fd.exists \/ ScanFailed(fd, ScanLoop(fd, 1))) => fd.fmt = "frac"
        /\ get_start_time(fd).err # "none" => fd.start = 1}

\* InOrder with a fault: the later one first.
InOrderDescending(a, b) == a.time >= b.time

\* sorted(..., key=sort_dict.get): a stays before b.
InOrder(a, b) == a.time <= b.time

\* sorted(sort_dict, key=sort_dict.get), as an insertion from the left: the
\* item goes behind the last one it may stay behind (equal times keep the
\* order of insertion).
RECURSIVE SortedItems(_)
SortedItems(items) ==
    IF items = <<>> THEN <<>>
    ELSE LET done == SortedItems(SubSeq(items, 1, Len(items) - 1))
             x == items[Len(items)]
             n == Cardinality({k \in 1..Len(done) : InOrder(done[k], x)})
         IN  SubSeq(done, 1, n) \o <<x>> \o SubSeq(done, n + 1, Len(done))

\* One turn of the loop: get_start_time inside try / except: / continue.
SortScan ==
    /\ so_pc = "scan"
    /\ LET r == get_start_time(so_in[so_i]) IN
       so_dict' = IF r.err = "none"
                  THEN Append(so_dict, [file |-> so_i, time |-> r.time])
                  ELSE so_dict
    /\ IF so_i = Len(so_in)
       THEN so_pc' = "sort" /\ so_i' = 1
       ELSE so_pc' = "scan" /\ so_i' = so_i + 1
    /\ UNCHANGED <<so_in, so_out, soOthers>>

\* `return sorted(sort_dict, key=sort_dict.get)`
SortReturn ==
    /\ so_pc = "sort"
    /\ so_out' = LET items == SortedItems(so_dict)
                 IN  [k \in 1..Len(items) |-> items[k].file]
    /\ so_pc' = "done"
    /\ UNCHANGED <<so_in, so_i, so_dict, soOthers>>

SortIdle ==
    /\ so_in = <<>>
    /\ so_pc = "idle"
    /\ so_i = 1
    /\ so_dict = <<>>
    /\ so_out = <<>>

\* Every part of the model but the named one stands idle.
AuxIdle(part) ==
    /\ IF part = "resample" THEN TRUE ELSE ResampleIdle
    /\ IF part = "decl" THEN TRUE ELSE DeclIdle
    /\ IF part = "extract" THEN TRUE ELSE ExtractIdle
    /\ IF part = "stack" THEN TRUE ELSE StackIdle
    /\ IF part = "sort" THEN TRUE ELSE SortIdle

\* The file layer before any call.
FilesIdle ==
    /\ op = "none"
    /\ pc = "done"
    /\ stage = "read"
    /\ cur = 1
    /\ rd_open = FALSE
    /\ result = "none"
    /\ decl_reads = FALSE
    /\ rf_i = 1
    /\ dfs = <<>>
    /\ stacked = <<>>
    /\ ir_written = FALSE
    /\ ir_opens = 0
    /\ close_file = FALSE
    /\ cf_openAtEntry = FALSE
    /\ cf_queryOk = FALSE
    /\ cf_exit = "none"
    /\ cf_openAtExit = FALSE
    /\ cf_ret = <<>>
    /\ cf_closes = 0
    /\ cf_closedTwice = FALSE
    /\ rf_failed = {}
    /\ rd_leaked = FALSE

\* The server before start(), with a file of one analog channel.
PlaybackIdle ==
    /\ channel_info = [c \in Chans |-> [type |-> "analog", tbase |-> 1]]
    /\ frames = 0
    /\ main_pc = "get_file_info"
    /\ iba_info = EmptyInfo
    /\ opc_value = [c \in Chans |-> 0]
    /\ wv_i = 0
    /\ wv_pc = "read"
    /\ data_read = {}
    /\ u_pc = [g \in Tbases |-> "none"]
    /\ u_idx = [g \in Tbases |-> 0]
    /\ u_chan = [g \in Tbases |-> 1]
    /\ u_nextCall = [g \in Tbases |-> 0]
    /\ u_close = [g \in Tbases |-> FALSE]
    /\ u_tick = [g \in Tbases |-> 0]
    /\ now = 0
    /\ u_deadline0 = [g \in Tbases |-> 0]
    /\ u_stopTick = [g \in Tbases |-> -1]
    /\ u_stopBetween = [g \in Tbases |-> FALSE]
    /\ u_lastWrite = [g \in Tbases |-> 0]
    /\ writers = [h \in Chans |-> {}]

\* The files when the file layer is not the part that runs.
FilesFixed ==
    /\ f_desc = [f \in Files |-> [kind |-> "good", frames |-> FrameLimit - 1, clk |-> 2]]
    /\ f_exists = [f \in Files |-> TRUE]
    /\ f_written = [f \in Files |-> FALSE]

InitFiles ==
    /\ PlaybackIdle
    /\ FilesIdle
    /\ AuxIdle("files")
    /\ f_desc \in [Files -> FileDescs]
    /\ f_exists \in [Files -> BOOLEAN]
    /\ f_written \in [Files -> BOOLEAN]
    /\ \A f \in Files : f_written[f] => f_exists[f]

NextFiles ==
    \/ \E f \in Files : CallCheckFile(f)
    \/ \E f \in Files, owned \in BOOLEAN : CallValidate(f, owned)
    \/ \E d \in BOOLEAN : CallReadIbaFiles(d)
    \/ RfNext
    \/ IrCheck
    \/ IrOpen
    \/ GcEnum
    \/ CfEntry
    \/ CfQueryOk
    \/ CfQueryFails
    \/ CfExcept
    \/ CfLimit
    \/ IrExit
    \/ RfBody
    \/ RfBodyFails
    \/ \E f \in Files : Remove(f)
    \/ \E f \in Files : Release(f)

SpecFiles == InitFiles /\ [][NextFiles]_vars

InitPlayback ==
    /\ channel_info \in [Chans -> [type : ChanTypes, tbase : Tbases \cup {NoTbase}]]
    /\ frames \in 0..MaxLen
    /\ main_pc = "get_file_info"
    /\ iba_info = EmptyInfo
    /\ opc_value = [c \in Chans |-> 0]
    /\ wv_i = 0
    /\ wv_pc = "read"
    /\ data_read = {}
    /\ u_pc = [g \in Tbases |-> "none"]
    /\ u_idx = [g \in Tbases |-> 0]
    /\ u_chan = [g \in Tbases |-> 1]
    /\ u_nextCall = [g \in Tbases |-> 0]
    /\ u_close = [g \in Tbases |-> FALSE]
    /\ u_tick = [g \in Tbases |-> 0]
    /\ now = 0
    /\ u_deadline0 = [g \in Tbases |-> 0]
    /\ u_stopTick = [g \in Tbases |-> -1]
    /\ u_stopBetween = [g \in Tbases |-> FALSE]
    /\ u_lastWrite = [g \in Tbases |-> 0]
    /\ writers = [h \in Chans |-> {}]
    /\ FilesIdle
    /\ AuxIdle("playback")
    /\ FilesFixed

NextPlayback ==
    \/ GetFileInfo
    \/ InitOpc
    \/ InitOpcFails
    \/ ReadData
    \/ ReadDataFails
    \/ StartUpdater
    \/ WriteValuesEnd
    \/ \E g \in Tbases : LoopExit(g)
    \/ \E g \in Tbases : LoopEnter(g)
    \/ \E g \in Tbases : SetValue(g)
    \/ \E g \in Tbases : SetValueRaises(g)
    \/ \E g \in Tbases : Advance(g)
    \/ \E g \in Tbases : Schedule(g)
    \/ \E g \in Tbases : Wake(g)
    \/ \E g \in Tbases : Stop(g)
    \/ Pass

SpecPlayback == InitPlayback /\ [][NextPlayback]_vars

InitResample ==
    /\ PlaybackIdle
    /\ FilesIdle
    /\ FilesFixed
    /\ AuxIdle("resample")
    /\ rs_in \in RsInputs
    /\ rs_pc = "call"
    /\ rs_out = <<>>
    /\ rs_err = "none"

NextResample ==
    \/ ReadNumericChannel
    \/ ReadTextChannel
    \/ TimeAxis

SpecResample == InitResample /\ [][NextResample]_vars

InitDecl ==
    /\ PlaybackIdle
    /\ FilesIdle
    /\ FilesFixed
    /\ AuxIdle("decl")
    /\ dc_in \in [infos : Infos, channels : DcChannels, names : DcNames]
    /\ dc_pc = "names"
    /\ dc_channels = <<>>
    /\ dc_names = dc_in.names
    /\ dc_err = "none"

NextDecl ==
    \/ DeclNames
    \/ DeclChannels
    \/ DeclCompare

SpecDecl == InitDecl /\ [][NextDecl]_vars

InitExtract ==
    /\ PlaybackIdle
    /\ FilesIdle
    /\ FilesFixed
    /\ AuxIdle("extract")
    /\ ex_in \in ExInputs
    /\ ex_num = 1
    /\ ex_chan_data = "unbound"
    /\ ex_df = <<>>
    /\ ex_result = "run"

NextExtract ==
    \/ ExSingle
    \/ ExGroup
    \/ ExReturn

SpecExtract == InitExtract /\ [][NextExtract]_vars

InitStack ==
    /\ PlaybackIdle
    /\ FilesIdle
    /\ FilesFixed
    /\ AuxIdle("stack")
    /\ st_in \in SeqsUpTo(StackFiles, NumFiles)
    /\ st_pc = IF st_in = <<>> THEN "concat" ELSE "read"
    /\ st_i = 1
    /\ st_dfs = <<>>
    /\ st_columns = {}
    /\ st_out = <<>>
    /\ st_err = "none"

NextStack ==
    \/ StackRead
    \/ StackFill
    \/ StackConcat

SpecStack == InitStack /\ [][NextStack]_vars

InitSort ==
    /\ PlaybackIdle
    /\ FilesIdle
    /\ FilesFixed
    /\ AuxIdle("sort")
    /\ so_in \in SeqsUpTo(SortFiles, NumFiles)
    /\ so_pc = IF so_in = <<>> THEN "sort" ELSE "scan"
    /\ so_i = 1
    /\ so_dict = <<>>
    /\ so_out = <<>>

NextSort ==
    \/ SortScan
    \/ SortReturn

SpecSort == InitSort /\ [][NextSort]_vars


(***************************************************************************)
(* Properties of the playback.                                             *)
(***************************************************************************)

\* How often channel c stands in the list of sample rate t.
Occurrences(t, c) ==
    Cardinality({i \in 1..Len(iba_info.channels[t]) : iba_info.channels[t][i] = c})

\* C1: when stop() sets the close event after iteration k has done its work
\* (the thread sleeps or stands at the loop test) and before iteration k+1
\* begins, the thread performs no sink write for iteration k+1 or any later one.
C1_NoWriteAfterStop ==
    \A g \in Tbases : u_stopBetween[g] => u_lastWrite[g] <= u_stopTick[g]

\* C1, its case: a thread that was stopped between two iterations, after at
\* least one iteration with a sink write, has left its loop.
C1_Witness ==
    \E g \in Tbases :
        /\ u_stopBetween[g]
        /\ u_stopTick[g] >= 1
        /\ u_lastWrite[g] = u_stopTick[g]
        /\ u_pc[g] = "exited"

\* C2: whenever a thread is about to read the value for a sink write, its
\* cursor is a row of the data: 0 <= idx < frames.
C2_CursorInRange ==
    \A g \in Tbases : u_pc[g] = "write" => HasRow(u_idx[g])

\* C3: after the n-th iteration the deadline of a thread is the deadline its
\* constructor computed plus n times its sample period.
C3_DeadlineFixedIncrement ==
    \A g \in Tbases :
        u_pc[g] \in {"sleep", "loop", "exited"} =>
            u_nextCall[g] = u_deadline0[g] + u_tick[g] * Period(g)

\* C4: a thread that has entered its loop leaves it only after its close
\* event has been set.
C4_LeavesOnlyOnStop ==
    \A g \in Tbases : u_pc[g] \in {"exited", "crashed"} => u_close[g]

\* C5: no thread is started before the data of every sample rate has been
\* read.
C5_ExtractionBeforeWorkers ==
    (\E g \in Tbases : u_pc[g] # "none") => data_read = Range(iba_info.order)

\* C6: once get_file_info has run, every playable channel stands in exactly
\* one sample rate's list, exactly once, no other channel stands in any list,
\* and no node has been written by two different threads.
C6_DisjointGroups ==
    main_pc # "get_file_info" =>
        /\ \A c \in Chans :
              /\ Playable(c) =>
                    /\ Cardinality({t \in Tbases : Occurrences(t, c) > 0}) = 1
                    /\ \A t \in Tbases : Occurrences(t, c) <= 1
              /\ ~Playable(c) => \A t \in Tbases : Occurrences(t, c) = 0
        /\ \A h \in Chans : Cardinality(writers[h]) <= 1

\* C6, its case: two threads of different sample rates have both written to
\* the sink.
C6_Witness ==
    \E h1, h2 \in Chans : writers[h1] = {1} /\ writers[h2] = {2}

(***************************************************************************)
(* Properties of the file layer.                                           *)
(***************************************************************************)

\* C7: on every exit of __check_file__, by return or by exception, the
\* reader is open exactly when it was open on entry.
C7_ReaderStateRestored ==
    cf_exit # "none" => cf_openAtExit = cf_openAtEntry

\* C7, its case: __check_file__ was entered with a reader the caller had
\* opened, and left by IbaFileNotCompleteError with the reader still open.
C7_Witness ==
    /\ op = "validate"
    /\ cf_exit = "FileIncomplete"
    /\ cf_openAtEntry
    /\ cf_openAtExit

\* C8: when the metadata query has succeeded, __check_file__ raises
\* IbaFileNotCompleteError exactly when the frame count is at least
\* 1 000 000 000, and returns (clk, frames) otherwise.
C8_IncompleteThreshold ==
    (cf_exit # "none" /\ cf_queryOk) =>
        /\ (cf_exit = "FileIncomplete") <=> (f_desc[cur].frames >= 1000000000)
        /\ (f_desc[cur].frames < 1000000000) =>
              /\ cf_exit = "ok"
              /\ cf_ret = <<f_desc[cur].clk, f_desc[cur].frames>>

\* C8, its case: a file reporting exactly 1 000 000 000 frames has been
\* classified as incomplete.
C8_Witness ==
    /\ cf_queryOk
    /\ f_desc[cur].frames = 1000000000
    /\ cf_exit = "FileIncomplete"

\* C9: when ibaReader has found the file to be written by the recorder, it
\* has not called reader.Open, and the call ends with
\* IbaFileIsCurrentlyWrittenError.
C9_NoOpenWhileWritten ==
    ir_written =>
        /\ ir_opens = 0
        /\ pc = "done"
        /\ result = "FileCurrentlyWritten"

\* C9, its case: readIbaFiles met a file that the recorder is writing.
C9_Witness ==
    /\ op = "readIbaFiles"
    /\ ir_written
    /\ pc = "done"
    /\ result = "FileCurrentlyWritten"

\* C10: readIbaFiles does not fail because one file fails: when it has
\* ended, it has returned a frame that holds every file of the list whose
\* readIbaFile did not raise.
C10_StackingSurvivesFileFailure ==
    (op = "readIbaFiles" /\ pc = "done") =>
        /\ result = "ok"
        /\ \A f \in Files : f \in Range(stacked) \/ f \in rf_failed

\* C19: when a call that went through ibaReader has ended, by return or by
\* exception, no reader that ibaReader opened is left open.
C19_ReaderClosedAfterCall ==
    (pc = "done" /\ op \in {"checkFile", "readIbaFiles"}) =>
        /\ ~rd_open
        /\ ~rd_leaked

\* C20: within one invocation of __check_file__, reader.Close is called at
\* most once, and never on a reader that is already closed.
C20_CloseAtMostOnce ==
    /\ cf_closes <= 1
    /\ ~cf_closedTwice

(***************************************************************************)
(* Properties of one channel read.                                         *)
(***************************************************************************)

\* The frame a text event falls on.
EventIndex(k) == rs_in.channel_data[k].t \div rs_in.clk

\* The frame up to which the text of event k is to be held.
HeldUntil(k) ==
    IF k < Len(rs_in.channel_data) THEN EventIndex(k + 1) ELSE rs_in.frames

\* C16: the expansion of a text channel has frames entries, and every frame
\* from an event's frame up to the next event's frame (the last one: up to
\* frames) holds that event's text.
C16_TextHeldUntilNextEvent ==
    (rs_pc = "done" /\ rs_in.kind = "text" /\ rs_err = "none" /\ rs_in.tbase = 0) =>
        /\ Len(rs_out) = rs_in.frames
        /\ \A k \in 1..Len(rs_in.channel_data) :
             \A i \in EventIndex(k)..(HeldUntil(k) - 1) :
                i < rs_in.frames => rs_out[i + 1] = rs_in.channel_data[k].text

\* round(a / b) as Python rounds: to the nearest whole number, a tie to the
\* even one.
Round(a, b) ==
    LET q == a \div b
        r == a % b
    IN  IF 2 * r < b THEN q
        ELSE IF 2 * r > b THEN q + 1
        ELSE IF q % 2 = 0 THEN q ELSE q + 1

CeilDiv(a, b) == (a + b - 1) \div b

\* The series a read decimates.
Native == IF rs_in.kind = "numeric" THEN NativeNumeric(rs_in) ELSE Samples(rs_in.frames)

\* C17: for a timebase above the clock the read returns
\* ceil(len(native) / round(tbase / clk)) samples, and for tbase = 0 it
\* returns the native series.
C17_DownsampledLength ==
    (rs_pc = "done" /\ rs_in.kind \in {"numeric", "time"} /\ ~rs_in.none) =>
        /\ rs_in.tbase > rs_in.clk =>
             /\ rs_err = "none"
             /\ Len(rs_out) = CeilDiv(Len(Native), Round(rs_in.tbase, rs_in.clk))
        /\ rs_in.tbase = 0 => rs_out = Native

(***************************************************************************)
(* Properties of __declaration_check__.                                    *)
(***************************************************************************)

\* C14: for every form of the channels and names arguments the function
\* returns a channels list and a names list of equal length.
C14_EqualLength ==
    dc_pc = "done" =>
        /\ dc_err = "none"
        /\ dc_names.form = "list"
        /\ Len(dc_channels) = Len(dc_names.val)

\* C15: when channels is a dict, the channels returned are its keys in order
\* and the names returned are its values, whatever names was passed.
C15_DictKeysAndValues ==
    (dc_pc = "done" /\ dc_in.channels.form = "dict") =>
        LET d == dc_in.channels.val IN
        /\ dc_err = "none"
        /\ dc_channels = [i \in 1..Len(d) |-> One(d[i].key)]
        /\ dc_names = ListOf([i \in 1..Len(d) |-> d[i].value])

\* A dict of two items was passed together with a names list, and the call
\* has returned.
C15_Witness ==
    /\ dc_pc = "done"
    /\ dc_in.channels.form = "dict"
    /\ Len(dc_in.channels.val) = 2
    /\ dc_in.names.form = "list"
    /\ dc_in.names.val # <<>>

(***************************************************************************)
(* Properties of the loop over the channels.                               *)
(***************************************************************************)

\* Entry i of the channels names no channel that the file holds.
Unresolved(i) ==
    LET chn == ex_in.channels[i] IN
    IF chn.alt THEN Found(chn.g, ex_in.avail) = <<>> ELSE chn.s \notin ex_in.avail

\* The channel entry i resolves to.
Resolved(i) ==
    LET chn == ex_in.channels[i] IN
    IF chn.alt THEN Head(Found(chn.g, ex_in.avail)) ELSE chn.s

\* C11: with ignore the read succeeds, an unresolved entry leaves no column
\* under its name and every other entry has its column with its own data;
\* without ignore an unresolved entry ends the read with
\* ChannelNotFoundError.
C11_UnresolvedEntry ==
    ex_result \notin {"run", "idle"} =>
        /\ ex_in.ignore =>
             /\ ex_result = "ok"
             /\ \A i \in 1..Len(ex_in.channels) :
                  IF Unresolved(i)
                  THEN \A k \in 1..Len(ex_df) : ex_df[k].name # ex_in.names[i]
                  ELSE \E k \in 1..Len(ex_df) :
                          ex_df[k] = [name |-> ex_in.names[i], data |-> Resolved(i)]
        /\ (~ex_in.ignore /\ \E i \in 1..Len(ex_in.channels) : Unresolved(i)) =>
             ex_result = "ChannelNotFoundError"

(***************************************************************************)
(* Properties of the stacking.                                             *)
(***************************************************************************)

\* readIbaFiles has returned a frame.
Stacked == st_pc = "done" /\ st_err = "none"

\* The rows of the stack that came from the file at position i of the list.
RowsOf(i) == {k \in 1..Len(st_out) : st_out[k].file = i}

\* C12: the columns of the stack are the union of the columns of the files'
\* frames, every file has all its rows in the stack, and a row holds a null
\* (None or NaN) in every column its file's frame did not have.
C12_UnionColumnsNullFilled ==
    Stacked =>
        LET all_columns == UNION {st_in[i].columns : i \in 1..Len(st_in)} IN
        /\ \A k \in 1..Len(st_out) :
             {c \in ColNames : st_out[k].cells[c] # "absent"} = all_columns
        /\ \A i \in 1..Len(st_in) :
             /\ Cardinality(RowsOf(i)) = st_in[i].rows
             /\ \A k \in RowsOf(i) : \A c \in all_columns \ st_in[i].columns :
                  st_out[k].cells[c] \in {"None", "NaN"}

\* A file with the columns x, y and a file with the columns x, z have been
\* stacked.
C12_Witness ==
    /\ Stacked
    /\ Len(st_in) = 2
    /\ st_in[1].columns = {"Time", "x", "y"}
    /\ st_in[2].columns = {"Time", "x", "z"}

\* The rows of a file that starts earlier all come before the rows of a file
\* that starts later.
RowsByStartTime ==
    \A k, l \in 1..Len(st_out) :
        st_in[st_out[k].file].start < st_in[st_out[l].file].start => k < l

NoStartTime(i) ==
    LET fd == so_in[i] IN
    \/ ~fd.exists
    \/ ScanFailed(fd, ScanLoop(fd, 1)) /\ ~fd.reader
    \/ ~ScanFailed(fd, ScanLoop(fd, 1)) /\ fd.fmt = "bad"

\* C18: the list sortIbaFiles returns holds, once each, exactly the files
\* whose start time could be obtained, in ascending order of start time.
C18_SortedWithoutFailed ==
    so_pc = "done" =>
        /\ Range(so_out) = {i \in 1..Len(so_in) : ~NoStartTime(i)}
        /\ Len(so_out) = Cardinality(Range(so_out))
        /\ \A k, l \in 1..Len(so_out) :
             k < l => so_in[so_out[k]].start <= so_in[so_out[l]].start

\* A list has been sorted whose first file has no obtainable start time and
\* whose second file has one.
C18_Witness ==
    /\ so_pc = "done"
    /\ Len(so_in) = 2
    /\ NoStartTime(1)
    /\ ~NoStartTime(2)
    /\ so_out = <<2>>

=============================================================================
